---- MODULE Spec2Model ----
(***************************************************************************)
(* Model of the DART disclosure collection pipelines                       *)
(*   src/major_report_pipeline.py  (paid-in capital increase decisions)    *)
(*   src/ri_pipeline.py            (rights-issue registration statements)  *)
(*                                                                         *)
(* Strings are sequences of symbols.  A symbol is one character (bracket,  *)
(* blank, comma, dash, digit) or an atom standing for a run of characters  *)
(* that are neither brackets nor whitespace (for instance the title body   *)
(* PIIC, the paid-in capital increase decision).  Dates, which the code    *)
(* keeps as 8-digit YYYYMMDD strings and compares lexically, are integers  *)
(* counted in months; a receipt number is the pair of its leading 8        *)
(* characters (ymd) and the rest (seq).                                    *)
(***************************************************************************)
EXTENDS Integers, Sequences, FiniteSets, TLC

VARIABLES
    nrm_title, nrm_once, nrm_twice, nrm_pc,
    fin_row, fin_out, fin_pc,
    pipeline, bgn_de, end_de, upstream_list, pc, result,
    page_no, rows, list_log,
    report_df, corp_codes, ci, chunks, aux_chunks, detail_log,
    piic_df, rcept_nos, di, fulltext_rows, doc_log,
    chk_rows, chk_first, chk_out, chk_pc,
    par_doc, par_contact, par_schedule, par_pc

nrm_vars == <<nrm_title, nrm_once, nrm_twice, nrm_pc>>

fin_vars == <<fin_row, fin_out, fin_pc>>

run_vars ==
    <<pipeline, bgn_de, end_de, upstream_list, pc, result, page_no, rows, list_log,
      report_df, corp_codes, ci, chunks, aux_chunks, detail_log,
      piic_df, rcept_nos, di, fulltext_rows, doc_log>>

chk_vars == <<chk_rows, chk_first, chk_out, chk_pc>>

par_vars == <<par_doc, par_contact, par_schedule, par_pc>>

ext_vars == <<chk_vars, par_vars>>

vars == <<nrm_vars, fin_vars, run_vars, ext_vars>>

None == "None"

\* the four lists of auxiliary frames of the rights-issue run, all empty
NoAux == [df2_list |-> <<>>, df3_list |-> <<>>, df4_list |-> <<>>, df5_list |-> <<>>]

\* the derived tables of a workbook that has none
NoDerived == [check_list |-> <<>>, df_2 |-> <<>>, df_3 |-> <<>>, df_4 |-> <<>>, df_5 |-> <<>>]

\* a missing cell (None, NaN) of a table whose cells are strings
Null == <<"<null>">>

(***************************************************************************)
(* The variables of a specification that does not use them stay idle       *)
(***************************************************************************)
NormIdle ==
    /\ nrm_title = <<>>
    /\ nrm_once = None
    /\ nrm_twice = None
    /\ nrm_pc = 0

FinIdle ==
    /\ fin_row = None
    /\ fin_out = None
    /\ fin_pc = "idle"

RunIdle ==
    /\ pipeline = None /\ bgn_de = 0 /\ end_de = 0 /\ upstream_list = <<>>
    /\ pc = "idle" /\ result = None
    /\ page_no = 0 /\ rows = <<>> /\ list_log = <<>>
    /\ report_df = <<>> /\ corp_codes = <<>> /\ ci = 0 /\ chunks = <<>> /\ aux_chunks = NoAux
    /\ detail_log = <<>>
    /\ piic_df = <<>> /\ rcept_nos = <<>> /\ di = 0 /\ fulltext_rows = <<>>
    /\ doc_log = <<>>

ChkIdle ==
    /\ chk_rows = <<>>
    /\ chk_first = None
    /\ chk_out = None
    /\ chk_pc = "idle"

ParIdle ==
    /\ par_doc = None
    /\ par_contact = None
    /\ par_schedule = None
    /\ par_pc = "idle"

ExtIdle == ChkIdle /\ ParIdle

(***************************************************************************)
(* Bounds                                                                  *)
(***************************************************************************)
MaxTitleLen == 7
MaxFdppCols == 1
MaxPages == 2

(***************************************************************************)
(* Generic sequence helpers                                                *)
(***************************************************************************)
SeqsUpTo(S, n) == UNION {[1..k -> S] : k \in 0..n}

(***************************************************************************)
(* normalize_report_nm: the leading run of bracketed segments (optional    *)
(* whitespace, then one or more segments each followed by optional         *)
(* whitespace) is removed by re.sub, then the result is stripped           *)
(***************************************************************************)
Whitespace == {" "}

TitleAlphabet == {"[", "]", " ", "a"}

\* \s* , greedy: the first position at or after i that holds no whitespace
SkipSpace(s, i) ==
    CHOOSE j \in i..(Len(s) + 1) :
        /\ \A k \in i..(j - 1) : s[k] \in Whitespace
        /\ (j = Len(s) + 1 \/ s[j] \notin Whitespace)

\* \[[^\]]+\] at position i: the position after the match, 0 when there is none
MatchSegment(s, i) ==
    IF i <= Len(s) /\ s[i] = "[" /\ (\E j \in (i + 1)..Len(s) : s[j] = "]")
    THEN LET j == CHOOSE j \in (i + 1)..Len(s) :
                      s[j] = "]" /\ \A k \in (i + 1)..(j - 1) : s[k] # "]"
         IN  IF j >= i + 2 THEN j + 1 ELSE 0
    ELSE 0

\* the repeated group, segment then \s*, continued greedily from position i
RECURSIVE SegLoop(_, _)
SegLoop(s, i) ==
    LET m == MatchSegment(s, i)
    IN  IF m = 0 THEN i ELSE SegLoop(s, SkipSpace(s, m))

\* the single-segment pattern ^\s*\[[^\]]+\]\s* (no repetition)
MatchPrefixOnce(s) ==
    LET m == MatchSegment(s, SkipSpace(s, 1))
    IN  IF m = 0 THEN 0 ELSE SkipSpace(s, m)

\* the pattern with the segments required to be adjacent: whitespace is
\* accepted before the first segment and after the last one only
RECURSIVE SegLoopNoGap(_, _)
SegLoopNoGap(s, i) ==
    LET m == MatchSegment(s, i)
    IN  IF m = 0 THEN i ELSE SegLoopNoGap(s, m)

MatchPrefixNoGap(s) ==
    LET m == MatchSegment(s, SkipSpace(s, 1))
    IN  IF m = 0 THEN 0 ELSE SkipSpace(s, SegLoopNoGap(s, m))

\* the whole pattern: the position after the match, 0 when there is none
MatchPrefix(s) ==
    LET m == MatchSegment(s, SkipSpace(s, 1))
    IN  IF m = 0 THEN 0 ELSE SegLoop(s, SkipSpace(s, m))

\* str.strip()
Strip(s) ==
    LET a == SkipSpace(s, 1)
    IN  IF a > Len(s) THEN <<>>
        ELSE LET b == CHOOSE j \in a..Len(s) :
                          s[j] \notin Whitespace
                          /\ \A k \in (j + 1)..Len(s) : s[k] \in Whitespace
             IN  SubSeq(s, a, b)

\* re.sub of a pattern anchored at the start by the empty string
SubPrefix(s, m) == IF m = 0 THEN s ELSE SubSeq(s, m, Len(s))

normalize_report_nm_single(report_nm) == Strip(SubPrefix(report_nm, MatchPrefixOnce(report_nm)))

normalize_report_nm(report_nm) == Strip(SubPrefix(report_nm, MatchPrefix(report_nm)))

(***************************************************************************)
(* to_numeric_series and add_finance_columns                               *)
(* A number is [k, n]: k is fin (the integer n), inf, ninf or nan.  A      *)
(* quotient is [k, n, d]: the rational n/d when k is fin.                  *)
(***************************************************************************)
Fin(n) == [k |-> "fin", n |-> n]
NaN == [k |-> "nan", n |-> 0]
PosInf == [k |-> "inf", n |-> 0]
NegInf == [k |-> "ninf", n |-> 0]

Digits == {"0", "1", "2", "3", "4", "5", "6", "7", "8", "9"}

DigitVal(c) ==
    CASE c = "0" -> 0 [] c = "1" -> 1 [] c = "2" -> 2 [] c = "3" -> 3
      [] c = "4" -> 4 [] c = "5" -> 5 [] c = "6" -> 6 [] c = "7" -> 7
      [] c = "8" -> 8 [] c = "9" -> 9

RECURSIVE DigitsVal(_)
DigitsVal(s) ==
    IF s = <<>> THEN 0
    ELSE 10 * DigitsVal(SubSeq(s, 1, Len(s) - 1)) + DigitVal(s[Len(s)])

\* the cells a detail row may hold in an amount or a count column
CellVals ==
    { Null, <<>>, <<"-">>, <<"0">>, <<"2">>, <<"5">>, <<"1", ",", "0">>,
      <<"x">>, <<"-", "5">>, <<"inf">> }

\* Series.replace("-", "0"): a cell that is exactly the dash
ReplaceDash(v) == IF v = <<"-">> THEN <<"0">> ELSE v

\* Series.replace(",", "", regex=True): every comma of a string cell
RECURSIVE RemoveCommas(_)
RemoveCommas(v) ==
    IF v = Null \/ v = <<>> THEN v
    ELSE IF Head(v) = "," THEN RemoveCommas(Tail(v))
         ELSE <<Head(v)>> \o RemoveCommas(Tail(v))

\* the unsigned part of a numeric literal
ParseUnsigned(v) ==
    IF v = <<"inf">> THEN PosInf
    ELSE IF v # <<>> /\ \A i \in 1..Len(v) : v[i] \in Digits THEN Fin(DigitsVal(v))
    ELSE NaN

Negate(x) ==
    CASE x.k = "fin" -> Fin(0 - x.n)
      [] x.k = "inf" -> NegInf
      [] x.k = "ninf" -> PosInf
      [] OTHER -> NaN

\* pd.to_numeric(errors="coerce") of one cell
ToNumeric(v) ==
    IF v = Null \/ v = <<>> THEN NaN
    ELSE IF Head(v) = "-" THEN Negate(ParseUnsigned(Tail(v)))
    ELSE ParseUnsigned(v)

\* Series.fillna(0)
FillNa0(x) == IF x.k = "nan" THEN Fin(0) ELSE x

to_numeric_series(v) == FillNa0(ToNumeric(RemoveCommas(ReplaceDash(v))))

\* floating-point addition
AddNum(x, y) ==
    CASE x.k = "nan" \/ y.k = "nan" -> NaN
      [] x.k = "fin" /\ y.k = "fin" -> Fin(x.n + y.n)
      [] x.k = "fin" -> y
      [] y.k = "fin" -> x
      [] x.k = y.k -> x
      [] OTHER -> NaN

\* df[cols].apply(to_numeric_series).sum(axis=1) if cols else 0
RECURSIVE SumCols(_)
SumCols(cells) ==
    IF cells = <<>> THEN Fin(0)
    ELSE AddNum(to_numeric_series(Head(cells)), SumCols(Tail(cells)))

Sign(n) == IF n > 0 THEN 1 ELSE IF n < 0 THEN 0 - 1 ELSE 0

\* floating-point division fdpp_sum / nstk_sum
DivNum(x, y) ==
    CASE x.k = "nan" \/ y.k = "nan" -> [k |-> "nan", n |-> 0, d |-> 1]
      [] x.k = "fin" /\ y.k = "fin" ->
            IF y.n # 0 THEN [k |-> "fin", n |-> x.n, d |-> y.n]
            ELSE IF x.n > 0 THEN [k |-> "inf", n |-> 0, d |-> 1]
            ELSE IF x.n < 0 THEN [k |-> "ninf", n |-> 0, d |-> 1]
            ELSE [k |-> "nan", n |-> 0, d |-> 1]
      [] x.k = "fin" -> [k |-> "fin", n |-> 0, d |-> 1]
      [] y.k = "fin" ->
            IF (x.k = "inf") = (y.n >= 0)
            THEN [k |-> "inf", n |-> 0, d |-> 1]
            ELSE [k |-> "ninf", n |-> 0, d |-> 1]
      [] OTHER -> [k |-> "nan", n |-> 0, d |-> 1]

\* the mutant of ReplaceInf: infinities are left in place
KeepInf(q) == q

\* .replace([np.inf, -np.inf], np.nan)
ReplaceInf(q) == IF q.k \in {"inf", "ninf"} THEN [k |-> "nan", n |-> 0, d |-> 1] ELSE q

\* .fillna(0) of a quotient
FillNaQ(q) == IF q.k = "nan" THEN [k |-> "fin", n |-> 0, d |-> 1] ELSE q

\* .round(): to the nearest integer, halves to the even one
RoundHalfEven(n, d) ==
    LET nn == IF d < 0 THEN 0 - n ELSE n
        dd == IF d < 0 THEN 0 - d ELSE d
        q == nn \div dd
        r == nn % dd
    IN  IF 2 * r < dd THEN q
        ELSE IF 2 * r > dd THEN q + 1
        ELSE IF q % 2 = 0 THEN q ELSE q + 1

\* .round().astype(int): raises on a value that is not finite
RoundAsInt(q) ==
    IF q.k = "fin"
    THEN [raised |-> FALSE, value |-> RoundHalfEven(q.n, q.d)]
    ELSE [raised |-> TRUE, value |-> None]

\* add_finance_columns on one row: fdpp are the cells of the columns whose
\* name contains fdpp, nstk the cells of nstk_ostk_cnt and nstk_estk_cnt
\* that the table has
add_finance_columns(row) ==
    LET fdpp_sum == SumCols(row.fdpp)
        nstk_sum == SumCols(row.nstk)
        ps == RoundAsInt(FillNaQ(ReplaceInf(DivNum(fdpp_sum, nstk_sum))))
    IN  [raised |-> ps.raised, fdpp_sum |-> fdpp_sum, nstk_sum |-> nstk_sum,
         nstk_ps |-> ps.value]

(***************************************************************************)
(* SpecFin: add_finance_columns on every row of bounded cells              *)
(***************************************************************************)
FinInit ==
    /\ NormIdle
    /\ RunIdle
    /\ ExtIdle
    /\ fin_row \in [fdpp : SeqsUpTo(CellVals, MaxFdppCols), nstk : SeqsUpTo(CellVals, 2)]
    /\ fin_out = None
    /\ fin_pc = "call"

AddFinanceColumns ==
    /\ fin_pc = "call"
    /\ fin_out' = add_finance_columns(fin_row)
    /\ fin_pc' = "done"
    /\ UNCHANGED <<fin_row, nrm_vars, run_vars, ext_vars>>

FinNext == AddFinanceColumns

SpecFin == FinInit /\ [][FinNext]_vars

\* C9: add_finance_columns never raises and never yields an infinite or
\* undefined unit price: nstk_ps is an integer for every row, and it is 0
\* whenever the aggregate unit count nstk_sum is 0 (x/0 and 0/0 alike).
C9_DivisionGuard ==
    fin_pc = "done" =>
        /\ ~fin_out.raised
        /\ fin_out.nstk_ps \in Int
        /\ (fin_out.nstk_sum = Fin(0) => fin_out.nstk_ps = 0)

\* a row with a non-zero amount and a zero unit count got the price 0
C9_Witness ==
    /\ fin_pc = "done"
    /\ fin_out.nstk_sum = Fin(0)
    /\ fin_out.fdpp_sum.k = "fin" /\ fin_out.fdpp_sum.n > 0
    /\ Len(fin_row.nstk) = 2
    /\ fin_out.nstk_ps = 0

(***************************************************************************)
(* SpecNorm: normalize_report_nm applied once and then to its own result   *)
(***************************************************************************)
NormInit ==
    /\ FinIdle
    /\ RunIdle
    /\ ExtIdle
    /\ nrm_title \in SeqsUpTo(TitleAlphabet, MaxTitleLen)
    /\ nrm_once = None
    /\ nrm_twice = None
    /\ nrm_pc = 0

NormalizeFirst ==
    /\ nrm_pc = 0
    /\ nrm_once' = normalize_report_nm(nrm_title)
    /\ nrm_pc' = 1
    /\ UNCHANGED <<nrm_title, nrm_twice, fin_vars, run_vars, ext_vars>>

NormalizeAgain ==
    /\ nrm_pc = 1
    /\ nrm_twice' = normalize_report_nm(nrm_once)
    /\ nrm_pc' = 2
    /\ UNCHANGED <<nrm_title, nrm_once, fin_vars, run_vars, ext_vars>>

NormNext == NormalizeFirst \/ NormalizeAgain

SpecNorm == NormInit /\ [][NormNext]_vars

\* C10: normalize_report_nm is idempotent: normalizing the result of a
\* normalization gives that result back, for every title.
C10_Idempotent == nrm_pc = 2 => nrm_twice = nrm_once

\* a title with two bracketed prefixes and a body has been normalized twice
C10_Witness ==
    /\ nrm_pc = 2
    /\ Len(nrm_title) = 5
    /\ nrm_title[1] = "[" /\ nrm_title[3] = "]" /\ nrm_title[4] = " "
    /\ nrm_once = <<"a">>
    /\ nrm_twice = <<"a">>

\* no whitespace at either end
Trimmed(s) == s = <<>> \/ (s[1] \notin Whitespace /\ s[Len(s)] \notin Whitespace)

\* s starts with an opening bracket that is closed later, whatever lies between
BeginsWithSegment(s) ==
    /\ s # <<>>
    /\ s[1] = "["
    /\ \E j \in 2..Len(s) : s[j] = "]"

\* s starts with a bracketed segment holding at least one character
BeginsWithNonEmptySegment(s) ==
    /\ Len(s) >= 3
    /\ s[1] = "["
    /\ s[2] # "]"
    /\ \E j \in 3..Len(s) : s[j] = "]"

\* C11 as stated: for every title, the normalized title has no whitespace at
\* either end and does not begin with a bracketed segment, whatever the
\* content of the segments that preceded the body.
C11_StripsEverySegment ==
    nrm_pc >= 1 => (Trimmed(nrm_once) /\ ~BeginsWithSegment(nrm_once))

\* C11 as amended: for every title, the normalized title has no whitespace at
\* either end and does not begin with a bracketed segment that holds at least
\* one character; an empty pair of brackets is not a segment and stays.
C11_StripsNonEmptySegments ==
    nrm_pc >= 1 => (Trimmed(nrm_once) /\ ~BeginsWithNonEmptySegment(nrm_once))

\* a title of two bracketed segments and a body has been normalized to the body
C11_Witness ==
    /\ nrm_pc >= 1
    /\ nrm_title = <<"[", "a", "]", "[", "a", "]", "a">>
    /\ nrm_once = <<"a">>

(***************************************************************************)
(* The runs: run_major_paid_increase_report_bytes and                      *)
(* run_rights_issue_report_bytes against an upstream that answers each     *)
(* request as it pleases.                                                  *)
(***************************************************************************)
Rcpt(ymd, n) == [ymd |-> ymd, seq |-> n]

Item(c, r, t) ==
    [corp_code |-> c, corp_name |-> <<"name", c>>, rcept_no |-> r, rcept_dt |-> r.ymd,
     report_nm |-> t]

\* the requested windows (bgn_de, end_de), in months
Windows == {[bgn_de |-> 10, end_de |-> 11], [bgn_de |-> 9, end_de |-> 11]}

\* title bodies: PIIC, CB and BW are the three titles of TARGET_REPORT_TITLES,
\* RI is REPORT_NAME_DEFAULT; CORR and FINAL are the bracketed markers
TARGET_REPORT_TITLES == {<<"PIIC">>, <<"CB">>, <<"BW">>}
REPORT_NAME_DEFAULT == <<"RI">>

M1 == Item("c1", Rcpt(10, 1), <<"PIIC">>)
M2 == Item("c2", Rcpt(11, 2), <<"[", "CORR", "]", " ", "PIIC">>)
M3 == Item("c1", Rcpt(11, 3), <<"CB">>)
M4 == Item("c3", Rcpt(10, 4), <<"OTHER">>)
M5 == Item("c1", Rcpt(11, 5), <<"[", "CORR", "]", "PIIC">>)
M1c == Item("c1", Rcpt(10, 1), <<"[", "CORR", "]", "[", "CORR", "]", " ", "PIIC">>)
R1 == Item("c1", Rcpt(10, 1), <<"RI">>)
R2 == Item("c2", Rcpt(11, 2), <<"[", "CORR", "]", "RI">>)
R3 == Item("c1", Rcpt(11, 3), <<"[", "FINAL", "]", "RI">>)
R4 == Item("c3", Rcpt(10, 4), <<"OTHER">>)
M6 == Item("c3", Rcpt(11, 6), <<"PIIC">>)
R6 == Item("c3", Rcpt(11, 6), <<"RI">>)

\* what the list endpoint holds, page by page
ListWorlds(pl) ==
    IF pl = "major"
    THEN { <<<<M1, M2>>, <<M3, M4>>>>, <<<<M1, M3>>, <<M5, M2>>>>, <<<<M2, M1>>, <<M6>>>>,
           <<<<M1, M1c>>, <<M1>>>>, <<<<M3, M4>>>>, <<<<M4>>>>, <<>> }
    ELSE { <<<<R1, R2>>, <<R3, R4>>>>, <<<<R6, R2>>, <<R1, R3>>>>, <<<<R4>>>>, <<>> }

PageOf(world, p) == IF p \in 1..Len(world) THEN world[p] ELSE <<>>

StatusVals == {"000", "013"}

\* the total_page field of a response: absent, or a number
TotalPageVals == {<<>>} \cup {<<n>> : n \in 0..MaxPages}

\* int(data.get("total_page") or 0)
TotalPageInt(raw) == IF raw = <<>> THEN 0 ELSE raw[1]

RECURSIVE Concat(_)
Concat(ss) == IF ss = <<>> THEN <<>> ELSE Head(ss) \o Concat(Tail(ss))

\* Series.unique(): the distinct values in order of first appearance
RECURSIVE Unique(_)
Unique(q) ==
    IF q = <<>> THEN <<>>
    ELSE LET u == Unique(SubSeq(q, 1, Len(q) - 1))
             x == q[Len(q)]
         IN  IF \E i \in 1..Len(u) : u[i] = x THEN u ELSE Append(u, x)

Col(df, f) == [i \in 1..Len(df) |-> df[i][f]]

\* needle in haystack, for strings
Contains(t, sub) ==
    \E i \in 1..(Len(t) - Len(sub) + 1) : SubSeq(t, i, i + Len(sub) - 1) = sub

Url(rcept_no) == <<"https://dart.fss.or.kr/dsaf001/main.do?rcpNo=", rcept_no>>

Pending == [kind |-> "pending", error |-> <<>>, sheet |-> <<>>, derived |-> NoDerived]
Nothing == [kind |-> "none", error |-> <<>>, sheet |-> <<>>, derived |-> NoDerived]
Raised(e) == [kind |-> "raised", error |-> e, sheet |-> <<>>, derived |-> NoDerived]
Workbook(sheet) == [kind |-> "workbook", error |-> <<>>, sheet |-> sheet, derived |-> NoDerived]

\* the workbook of the rights-issue run: the primary sheet and the five others
RiWorkbook(sheet, derived) ==
    [kind |-> "workbook", error |-> <<>>, sheet |-> sheet, derived |-> derived]

(***************************************************************************)
(* iter_list                                                               *)
(***************************************************************************)
\* the mutant of ListStatusOk: every status passes
ListStatusAny(status) == TRUE

\* str(data.get("status")) != "000" raises
ListStatusOk(status) == status = "000"

\* the mutant of YieldItems: the first record of a page is lost
YieldTail(list) == IF list = <<>> THEN <<>> ELSE Tail(list)

\* for item in data.get("list") or []: yield item
YieldItems(list) == list

\* the mutant of IsLastPage: one page too many
IsLastPageLate(p, total_page) == total_page = 0 \/ p > total_page

\* if total_page == 0 or page_no >= total_page: break
IsLastPage(p, total_page) == total_page = 0 \/ p >= total_page

\* the same test as ri_pipeline.iter_list writes it
RiIsLastPage(p, total_page) == p >= total_page \/ total_page = 0

\* the message of the RuntimeError each iter_list raises
ListError(pl, status) ==
    IF pl = "major" THEN <<"RuntimeError", status, "message">>
    ELSE <<"RuntimeError", "message">>

LogEntry(p, http, status, total) ==
    [page_no |-> p, http |-> http, status |-> status, total_page |-> total]

\* requests.get fails or resp.raise_for_status() raises: the run ends with it
ListTransportError ==
    /\ pc = "list"
    /\ list_log' = Append(list_log, LogEntry(page_no, "fail", "", <<>>))
    /\ result' = Raised(<<"HTTPError">>)
    /\ pc' = "done"
    /\ UNCHANGED <<pipeline, bgn_de, end_de, upstream_list, page_no, rows,
                   report_df, corp_codes, ci, chunks, aux_chunks, detail_log,
                   piic_df, rcept_nos, di, fulltext_rows, doc_log, nrm_vars, fin_vars, ext_vars>>

\* one pass of the while loop: request page_no, check the status, yield the
\* records, then stop or go to the next page
ListPage ==
    /\ pc = "list"
    /\ \E status \in StatusVals, total \in TotalPageVals :
          /\ list_log' = Append(list_log, LogEntry(page_no, "ok", status, total))
          /\ IF ~ListStatusOk(status)
             THEN /\ result' = Raised(ListError(pipeline, status))
                  /\ pc' = "done"
                  /\ UNCHANGED <<rows, page_no>>
             ELSE /\ rows' = rows \o YieldItems(PageOf(upstream_list, page_no))
                  /\ LET last == IF pipeline = "major"
                                 THEN IsLastPage(page_no, TotalPageInt(total))
                                 ELSE RiIsLastPage(page_no, TotalPageInt(total))
                     IN  IF last
                         THEN pc' = "filter" /\ page_no' = page_no
                         ELSE pc' = "list" /\ page_no' = page_no + 1
                  /\ UNCHANGED result
    /\ UNCHANGED <<pipeline, bgn_de, end_de, upstream_list,
                   report_df, corp_codes, ci, chunks, aux_chunks, detail_log,
                   piic_df, rcept_nos, di, fulltext_rows, doc_log, nrm_vars, fin_vars, ext_vars>>

(***************************************************************************)
(* get_major_report_list and the head of fetch_paid_increase_decision_df   *)
(***************************************************************************)
WithUrl(df) ==
    [i \in 1..Len(df) |->
        [corp_code |-> df[i].corp_code, corp_name |-> df[i].corp_name,
         rcept_no |-> df[i].rcept_no, rcept_dt |-> df[i].rcept_dt,
         report_nm |-> df[i].report_nm, URL |-> Url(df[i].rcept_no)]]

\* df[df["report_nm_norm"].isin(TARGET_REPORT_TITLES)] with the URL column
get_major_report_list(rws) ==
    LET Keep(r) == normalize_report_nm(r.report_nm) \in TARGET_REPORT_TITLES
    IN  WithUrl(SelectSeq(rws, Keep))

\* target: the rows whose normalized title is the paid-in increase decision
Target(major_list_df) ==
    LET Keep(r) == normalize_report_nm(r.report_nm) = <<"PIIC">>
    IN  SelectSeq(major_list_df, Keep)

MajorFilter ==
    /\ pc = "filter" /\ pipeline = "major"
    /\ LET major_list_df == get_major_report_list(rows)
           target == Target(major_list_df)
       IN  /\ report_df' = major_list_df
           /\ IF major_list_df = <<>> \/ target = <<>>
              THEN /\ result' = Nothing
                   /\ pc' = "done"
                   /\ UNCHANGED <<corp_codes, ci>>
              ELSE /\ corp_codes' = Unique(Col(target, "corp_code"))
                   /\ ci' = 1
                   /\ pc' = "detail"
                   /\ UNCHANGED result
    /\ UNCHANGED <<pipeline, bgn_de, end_de, upstream_list, page_no, rows, list_log,
                   chunks, aux_chunks, detail_log,
                   piic_df, rcept_nos, di, fulltext_rows, doc_log, nrm_vars, fin_vars, ext_vars>>

(***************************************************************************)
(* _build_report_df and the head of run_rights_issue_report_bytes          *)
(***************************************************************************)
\* the items whose report_nm contains report_name, with the URL column
build_report_df(rws) ==
    LET Keep(r) == Contains(r.report_nm, REPORT_NAME_DEFAULT)
    IN  WithUrl(SelectSeq(rws, Keep))

RiFilter ==
    /\ pc = "filter" /\ pipeline = "ri"
    /\ report_df' = build_report_df(rows)
    /\ IF report_df' = <<>>
       THEN /\ result' = Nothing
            /\ pc' = "done"
            /\ UNCHANGED <<corp_codes, ci>>
       ELSE /\ corp_codes' = Unique(Col(report_df', "corp_code"))
            /\ ci' = 1
            /\ pc' = "detail"
            /\ UNCHANGED result
    /\ UNCHANGED <<pipeline, bgn_de, end_de, upstream_list, page_no, rows, list_log,
                   chunks, aux_chunks, detail_log,
                   piic_df, rcept_nos, di, fulltext_rows, doc_log, nrm_vars, fin_vars, ext_vars>>

(***************************************************************************)
(* fetch_paid_increase_decision_df: the loop over corp_codes                *)
(***************************************************************************)
Months8 == 8

\* bgn_de minus relativedelta(months=8)
BgnForApi(bgn) == bgn - Months8

D(c, r, f, n) == [corp_code |-> c, rcept_no |-> r, fdpp |-> f, nstk |-> n]

D0 == D("c1", Rcpt(9, 7), <<<<"5">>>>, <<<<"2">>, <<"-">>>>)
D1 == D("c1", Rcpt(10, 1), <<<<"1", ",", "0">>>>, <<<<"-">>, <<"-">>>>)
D1b == D("c1", Rcpt(10, 1), <<<<"5">>>>, <<<<"2">>, <<"2">>>>)
D5 == D("c1", Rcpt(11, 5), <<<<"5">>>>, <<<<"2">>, <<"-">>>>)
D9 == D("c1", Rcpt(12, 8), <<<<"5">>>>, <<<<"2">>, <<"-">>>>)
D2 == D("c2", Rcpt(11, 2), <<<<"x">>>>, <<<<"5">>, <<>>>>)
D6 == D("c3", Rcpt(11, 6), <<<<"5">>>>, <<<<"2">>, <<"-">>>>)

\* the lists the detail endpoint may answer for a company; the endpoint dates
\* filings by its own records, so the receipt dates it returns are not bound
\* to the window of the request
PiicLists(c) ==
    IF c = "c1"
    THEN {<<D1>>, <<D0, D1>>, <<D1, D1b>>, <<D0, D1, D5, D9>>, <<D0>>}
    ELSE IF c = "c2" THEN {<<D2>>, <<D2, D2>>}
    ELSE {<<D6>>}

PiicResponses(c) ==
    {[http |-> "fail", status |-> "", list |-> <<>>],
     [http |-> "ok", status |-> "013", list |-> <<>>]}
    \cup {[http |-> "ok", status |-> "000", list |-> l] : l \in PiicLists(c) \cup {<<>>}}

\* the mutant of DetailStep: a non-success status is raised as iter_list does
DetailStepRaise(resp) ==
    IF resp.http = "fail" THEN "skip"
    ELSE IF resp.status # "000" THEN "raise"
    ELSE IF resp.list = <<>> THEN "skip"
    ELSE "append"

\* what one pass of the loop does with the answer: the except clause, the
\* status test and the two emptiness tests all continue
DetailStep(resp) ==
    IF resp.http = "fail" THEN "skip"
    ELSE IF resp.status # "000" THEN "skip"
    ELSE IF resp.list = <<>> THEN "skip"
    ELSE "append"

DetailLog(c, bgn, end, resp, ov) ==
    [corp_code |-> c, bgn_de |-> bgn, end_de |-> end, http |-> resp.http,
     status |-> resp.status, list |-> resp.list, overview |-> ov]

MajorDetail ==
    /\ pc = "detail" /\ pipeline = "major" /\ ci <= Len(corp_codes)
    /\ \E resp \in PiicResponses(corp_codes[ci]) :
          /\ detail_log' = Append(detail_log,
                 DetailLog(corp_codes[ci], BgnForApi(bgn_de), end_de, resp, "none"))
          /\ LET step == DetailStep(resp)
             IN  IF step = "raise"
                 THEN /\ result' = Raised(<<"RuntimeError", resp.status>>)
                      /\ pc' = "done"
                      /\ UNCHANGED <<chunks, aux_chunks, ci>>
                 ELSE /\ chunks' = IF step = "append" THEN Append(chunks, resp.list)
                                   ELSE chunks
                      /\ UNCHANGED aux_chunks
                      /\ ci' = ci + 1
                      /\ UNCHANGED <<result, pc>>
    /\ UNCHANGED <<pipeline, bgn_de, end_de, upstream_list, page_no, rows, list_log,
                   report_df, corp_codes,
                   piic_df, rcept_nos, di, fulltext_rows, doc_log, nrm_vars, fin_vars, ext_vars>>

(***************************************************************************)
(* fetch_paid_increase_decision_df: merge, window, deduplication           *)
(***************************************************************************)
Merged(o, report_nm, url) ==
    [corp_code |-> o.corp_code, rcept_no |-> o.rcept_no, fdpp |-> o.fdpp,
     nstk |-> o.nstk, report_nm |-> report_nm, URL |-> url]

\* out.merge(meta_df, on=["corp_code", "rcept_no"], how="left")
RECURSIVE LeftMerge(_, _)
LeftMerge(out, meta_df) ==
    IF out = <<>> THEN <<>>
    ELSE LET o == Head(out)
             Match(m) == m.corp_code = o.corp_code /\ m.rcept_no = o.rcept_no
             ms == SelectSeq(meta_df, Match)
             joined == IF ms = <<>> THEN <<Merged(o, Null, Null)>>
                       ELSE [i \in 1..Len(ms) |-> Merged(o, ms[i].report_nm, ms[i].URL)]
         IN  joined \o LeftMerge(Tail(out), meta_df)

\* rcept_no.astype(str).str[:8]
RceptYmd(rcept_no) == rcept_no.ymd

\* the mutant of InWindow: the day the window starts is left out
InWindowOpen(ymd, bgn, end) == ymd > bgn /\ ymd <= end

\* (rcept_ymd >= bgn_de) & (rcept_ymd <= end_de)
InWindow(ymd, bgn, end) == ymd >= bgn /\ ymd <= end

WindowFilter(out, bgn, end) ==
    LET Keep(r) == InWindow(RceptYmd(r.rcept_no), bgn, end)
    IN  SelectSeq(out, Keep)

\* the mutant of DropDuplicates: nothing is dropped
KeepDuplicates(out) == out

\* out.drop_duplicates(subset=["corp_code", "rcept_no"]): the first row of
\* each key stays
RECURSIVE DropDuplicates(_)
DropDuplicates(out) ==
    IF out = <<>> THEN <<>>
    ELSE LET u == DropDuplicates(SubSeq(out, 1, Len(out) - 1))
             x == out[Len(out)]
         IN  IF \E i \in 1..Len(u) :
                    u[i].corp_code = x.corp_code /\ u[i].rcept_no = x.rcept_no
             THEN u ELSE Append(u, x)

\* lines 175 to 200: what fetch_paid_increase_decision_df returns
fetch_paid_increase_decision_df(chnks, major_list_df, bgn, end) ==
    IF chnks = <<>> THEN <<>>
    ELSE LET meta_df == Unique(Target(major_list_df))
         IN  DropDuplicates(WindowFilter(LeftMerge(Concat(chnks), meta_df), bgn, end))

WithFinance(r) ==
    LET f == add_finance_columns(r)
    IN  [corp_code |-> r.corp_code, rcept_no |-> r.rcept_no, URL |-> r.URL,
         report_nm |-> r.report_nm, fdpp_sum |-> f.fdpp_sum, nstk_sum |-> f.nstk_sum,
         nstk_ps |-> f.nstk_ps]

\* the loop is over: the table is built, an empty one ends the run with None,
\* otherwise the finance columns are added
MajorEnrich ==
    /\ pc = "detail" /\ pipeline = "major" /\ ci > Len(corp_codes)
    /\ LET out == fetch_paid_increase_decision_df(chunks, report_df, bgn_de, end_de)
       IN  IF out = <<>>
           THEN /\ result' = Nothing
                /\ pc' = "done"
                /\ UNCHANGED piic_df
           ELSE /\ piic_df' = [i \in 1..Len(out) |-> WithFinance(out[i])]
                /\ pc' = "fetch"
                /\ UNCHANGED result
    /\ UNCHANGED <<pipeline, bgn_de, end_de, upstream_list, page_no, rows, list_log,
                   report_df, corp_codes, ci, chunks, aux_chunks, detail_log,
                   rcept_nos, di, fulltext_rows, doc_log, nrm_vars, fin_vars, ext_vars>>

(***************************************************************************)
(* parse_contact_fields and parse_schedule_fields.  A document is the      *)
(* sequence of the contents of its TD cells, as re.findall returns them,   *)
(* and what the two patterns of each schedule field capture: the           *)
(* AUNITVALUE attribute and the cell after the label cell.  The labels are *)
(* atoms: CEO, ADDR, WRITER (the signatory section), POS, NAME, TEL (its   *)
(* sub-labels), and TAG stands for a markup tag inside a cell.  A field    *)
(* that is None is Null here.                                              *)
(***************************************************************************)
WriterWindow == 12

Doc(cells, pa, pc_, la, lc) ==
    [cells |-> cells, pym_attr |-> pa, pym_cell |-> pc_, lst_attr |-> la, lst_cell |-> lc]

Min(a, b) == IF a <= b THEN a ELSE b

\* re.sub of tags by nothing
RemoveTags(s) ==
    LET Keep(x) == x # "TAG" IN SelectSeq(s, Keep)

\* re.sub of runs of whitespace by one blank
RECURSIVE CollapseSpace(_)
CollapseSpace(s) ==
    IF Len(s) <= 1 THEN s
    ELSE LET front == CollapseSpace(SubSeq(s, 1, Len(s) - 1))
             x == s[Len(s)]
         IN  IF x \in Whitespace /\ front[Len(front)] \in Whitespace
             THEN front ELSE Append(front, x)

clean(s) == Strip(CollapseSpace(RemoveTags(s)))

\* re.sub of whitespace, colon and parentheses by nothing
NormCell(c) ==
    LET Keep(x) == x \notin (Whitespace \cup {":", "(", ")"}) IN SelectSeq(c, Keep)

\* label in n_val
HasLabel(n_val, label) == \E i \in 1..Len(n_val) : n_val[i] = label

\* the first non-empty cell after idx, None when there is none
next_non_empty(cells, idx) ==
    IF \E j \in (idx + 1)..Len(cells) : cells[j] # <<>>
    THEN cells[CHOOSE j \in (idx + 1)..Len(cells) :
                   cells[j] # <<>> /\ \A k \in (idx + 1)..(j - 1) : cells[k] = <<>>]
    ELSE Null

\* re.sub of the pattern (optional opening parenthesis, the label, optional
\* closing parenthesis, whitespace allowed around) at the start of text by
\* nothing, then strip; a text that does not start with it is only stripped
strip_prefix(text, label) ==
    LET i1 == IF text # <<>> /\ text[1] = "(" THEN 2 ELSE 1
        i2 == SkipSpace(text, i1)
    IN  IF i2 <= Len(text) /\ text[i2] = label
        THEN LET i3 == SkipSpace(text, i2 + 1)
                 i4 == IF i3 <= Len(text) /\ text[i3] = ")" THEN i3 + 1 ELSE i3
                 i5 == SkipSpace(text, i4)
             IN  Strip(SubSeq(text, i5, Len(text)))
        ELSE Strip(text)

\* the first loop, from cell i on: o holds the two fields and writer_start
\* (0 while it is None)
RECURSIVE ContactScan(_, _, _, _)
ContactScan(cells, norm, i, o) ==
    IF i > Len(cells) THEN o
    ELSE LET o2 == IF HasLabel(norm[i], "CEO") /\ o.ceo = Null
                   THEN [o EXCEPT !.ceo = next_non_empty(cells, i)]
                   ELSE IF HasLabel(norm[i], "ADDR") /\ o.addr = Null
                   THEN [o EXCEPT !.addr = next_non_empty(cells, i)]
                   ELSE IF HasLabel(norm[i], "WRITER") /\ o.writer_start = 0
                   THEN [o EXCEPT !.writer_start = i]
                   ELSE o
         IN  ContactScan(cells, norm, i + 1, o2)

\* the last cell the second loop reads, as range(writer_start + 1,
\* min(writer_start + 12, len(cells))) gives it
WriterLast(writer_start, n) == Min(writer_start + WriterWindow - 1, n)

\* the mutant of WriterScanFrom: the second loop starts at the first cell
\* when there is no signatory label
WriterScanAlways(writer_start) == TRUE

\* if writer_start is not None
WriterScanFrom(writer_start) == writer_start # 0

\* the second loop, from cell j to cell last
RECURSIVE WriterScan(_, _, _, _, _)
WriterScan(cells, norm, j, last, o) ==
    IF j > last THEN o
    ELSE LET o2 == IF HasLabel(norm[j], "POS") /\ o.pos = Null
                   THEN [o EXCEPT !.pos = strip_prefix(cells[j], "POS")]
                   ELSE IF HasLabel(norm[j], "NAME") /\ o.name = Null
                   THEN [o EXCEPT !.name = strip_prefix(cells[j], "NAME")]
                   ELSE IF HasLabel(norm[j], "TEL") /\ o.tel = Null
                   THEN [o EXCEPT !.tel = strip_prefix(cells[j], "TEL")]
                   ELSE o
         IN  WriterScan(cells, norm, j + 1, last, o2)

parse_contact_fields(doc) ==
    LET cells == [i \in 1..Len(doc.cells) |-> clean(doc.cells[i])]
        norm == [i \in 1..Len(cells) |-> NormCell(cells[i])]
        first == ContactScan(cells, norm, 1, [ceo |-> Null, addr |-> Null, writer_start |-> 0])
        second == IF WriterScanFrom(first.writer_start)
                  THEN WriterScan(cells, norm, first.writer_start + 1,
                                  WriterLast(first.writer_start, Len(cells)),
                                  [pos |-> Null, name |-> Null, tel |-> Null])
                  ELSE [pos |-> Null, name |-> Null, tel |-> Null]
    IN  [ceo |-> first.ceo, addr |-> first.addr,
         pos |-> second.pos, name |-> second.name, tel |-> second.tel]

\* None if v in {"", "-"} else v
NoneIfBlank(v) == IF v = <<>> \/ v = <<"-">> THEN Null ELSE v

\* one schedule field: the attribute pattern first, then, while the field is
\* None, the pattern of the cell after the label cell; attr and cell are Null
\* when their pattern finds nothing
ScheduleField(attr, cell) ==
    LET a == IF attr = Null THEN Null ELSE NoneIfBlank(Strip(attr))
    IN  IF a # Null THEN a
        ELSE IF cell = Null THEN Null
        ELSE NoneIfBlank(Strip(RemoveTags(cell)))

parse_schedule_fields(doc) ==
    [pym |-> ScheduleField(doc.pym_attr, doc.pym_cell),
     lst |-> ScheduleField(doc.lst_attr, doc.lst_cell)]

(***************************************************************************)
(* fetch_report_fulltext_df, build_output_df, the workbook                 *)
(***************************************************************************)
\* a receipt number that is missing from its cell (None, NaN)
NoRcept == Rcpt(0, 0)

\* dropna().astype(str).unique().tolist()
FetchRceptNos(df) ==
    LET Keep(x) == x # NoRcept IN Unique(SelectSeq(Col(df, "rcept_no"), Keep))

\* what fetching one document may end in: a text, a failed download, a body
\* that is no archive, an archive without an .xml member
DocOutcomes == {"ok", "http", "badzip", "noxml"}

\* fulltext_xml: None, or a text, which may be the empty string
XmlNone == [isnull |-> TRUE, empty |-> TRUE, doc |-> Doc(<<>>, Null, Null, Null, Null)]
XmlText(empty, doc) == [isnull |-> FALSE, empty |-> empty, doc |-> doc]

\* the texts the document endpoint may deliver: the empty one, one with
\* every field, one whose cells carry no label
DocFull ==
    Doc(<<<<"CEO">>, <<"v">>, <<"ADDR", ":">>, <<"v">>, <<"WRITER">>,
          <<"(", "POS", ")", " ", "v">>, <<"NAME", " ", "v">>, <<"TEL", "TAG", "v">>>>,
        <<"d">>, Null, Null, <<"TAG", "d">>)

DocBare == Doc(<<<<"v">>, <<"-">>>>, Null, Null, <<"-">>, Null)

XmlTexts ==
    {XmlText(TRUE, Doc(<<>>, Null, Null, Null, Null)), XmlText(FALSE, DocFull),
     XmlText(FALSE, DocBare)}

DocAnswer(outcome, xml) == [outcome |-> outcome, xml |-> xml]

\* what the document endpoint may answer for a filing: anything for the
\* filing received first, a text or one kind of failure for the others
DocAnswers(rcept_no) ==
    IF rcept_no = Rcpt(10, 1)
    THEN {DocAnswer("ok", x) : x \in XmlTexts}
             \cup {DocAnswer(o, XmlNone) : o \in DocOutcomes \ {"ok"}}
    ELSE IF rcept_no = Rcpt(11, 5)
    THEN {DocAnswer("ok", XmlText(FALSE, DocFull)), DocAnswer("http", XmlNone)}
    ELSE {DocAnswer("ok", XmlText(FALSE, DocBare)), DocAnswer("noxml", XmlNone)}

FulltextRow(rcept_no, outcome, xml) ==
    [rcept_no |-> rcept_no,
     fulltext_xml |-> IF outcome = "ok" THEN xml ELSE XmlNone,
     error |-> IF outcome = "ok" THEN Null
               ELSE IF outcome = "noxml" THEN <<"xml file not found">>
               ELSE IF outcome = "http" THEN <<"HTTPError">>
               ELSE <<"BadZipFile">>]

\* the mutant of DocStep: the request and the archive are outside the try
DocStepRaise(outcome) == IF outcome \in {"http", "badzip"} THEN "raise" ELSE "row"

\* every outcome of the try block ends in rows.append
DocStep(outcome) == "row"

\* the head of fetch_report_fulltext_df: the receipt numbers to fetch
FulltextBegin ==
    /\ pc = "fetch"
    /\ rcept_nos' = FetchRceptNos(piic_df)
    /\ di' = 1
    /\ pc' = "fulltext"
    /\ UNCHANGED <<pipeline, bgn_de, end_de, upstream_list, result, page_no, rows,
                   list_log, report_df, corp_codes, ci, chunks, aux_chunks, detail_log,
                   piic_df, fulltext_rows, doc_log, nrm_vars, fin_vars, ext_vars>>

\* one pass of the loop over rcept_nos
MajorFulltext ==
    /\ pc = "fulltext" /\ di <= Len(rcept_nos)
    /\ \E a \in DocAnswers(rcept_nos[di]) :
          /\ doc_log' = Append(doc_log, [rcept_no |-> rcept_nos[di], outcome |-> a.outcome])
          /\ IF DocStep(a.outcome) = "raise"
             THEN /\ result' = Raised(<<"HTTPError">>)
                  /\ pc' = "done"
                  /\ UNCHANGED <<fulltext_rows, di>>
             ELSE /\ fulltext_rows' =
                         Append(fulltext_rows, FulltextRow(rcept_nos[di], a.outcome, a.xml))
                  /\ di' = di + 1
                  /\ UNCHANGED <<result, pc>>
    /\ UNCHANGED <<pipeline, bgn_de, end_de, upstream_list, page_no, rows,
                   list_log, report_df, corp_codes, ci, chunks, aux_chunks, detail_log,
                   piic_df, rcept_nos, nrm_vars, fin_vars, ext_vars>>

\* the seven parsed fields, all None
NoFields ==
    [ceo |-> Null, addr |-> Null, pos |-> Null, name |-> Null, tel |-> Null,
     pym |-> Null, lst |-> Null]

\* one row of parsed_rows: the fields of a text that is a non-empty string
ParsedRow(f) ==
    LET x == f.fulltext_xml
        c == parse_contact_fields(x.doc)
        d == parse_schedule_fields(x.doc)
    IN  [rcept_no |-> f.rcept_no,
         fields |-> IF ~x.isnull /\ ~x.empty
                    THEN [ceo |-> c.ceo, addr |-> c.addr, pos |-> c.pos, name |-> c.name,
                          tel |-> c.tel, pym |-> d.pym, lst |-> d.lst]
                    ELSE NoFields]

\* drop_duplicates(subset=["rcept_no"]): the first row of each number stays
RECURSIVE DropDuplicateRcept(_)
DropDuplicateRcept(q) ==
    IF q = <<>> THEN <<>>
    ELSE LET u == DropDuplicateRcept(SubSeq(q, 1, Len(q) - 1))
             x == q[Len(q)]
         IN  IF \E i \in 1..Len(u) : u[i].rcept_no = x.rcept_no THEN u ELSE Append(u, x)

OutRow(o, fields) ==
    [rcept_no |-> o.rcept_no, fdpp_sum |-> o.fdpp_sum, nstk_ps |-> o.nstk_ps,
     nstk_sum |-> o.nstk_sum, URL |-> o.URL, fields |-> fields]

\* how="left": a row without a match stays, its parsed fields None
JoinParsed(o, ms) ==
    IF ms = <<>> THEN <<OutRow(o, NoFields)>>
    ELSE [i \in 1..Len(ms) |-> OutRow(o, ms[i].fields)]

\* out.merge(parse_df, on="rcept_no", how="left")
RECURSIVE MergeParsed(_, _)
MergeParsed(out, parse_df) ==
    IF out = <<>> THEN <<>>
    ELSE LET o == Head(out)
             Match(m) == m.rcept_no = o.rcept_no
         IN  JoinParsed(o, SelectSeq(parse_df, Match)) \o MergeParsed(Tail(out), parse_df)

\* the mutant of build_output_df: only the filings whose document was
\* fetched are joined
build_output_df_fetched(piic, fulltext_df) ==
    LET parsed_rows == [i \in 1..Len(fulltext_df) |-> ParsedRow(fulltext_df[i])]
        Fetched(o) == \E i \in 1..Len(fulltext_df) :
                          /\ fulltext_df[i].rcept_no = o.rcept_no
                          /\ ~fulltext_df[i].fulltext_xml.isnull
    IN  MergeParsed(SelectSeq(piic, Fetched), DropDuplicateRcept(parsed_rows))

build_output_df(piic, fulltext_df) ==
    LET parsed_rows == [i \in 1..Len(fulltext_df) |-> ParsedRow(fulltext_df[i])]
    IN  MergeParsed(piic, DropDuplicateRcept(parsed_rows))

\* output_df.rename(OUT_RENAME_MAP).loc[:, OUT_COLUMNS]: the receipt number goes
format_output_df(output_df) ==
    [i \in 1..Len(output_df) |->
        [nstk_sum |-> output_df[i].nstk_sum, nstk_ps |-> output_df[i].nstk_ps,
         fdpp_sum |-> output_df[i].fdpp_sum, URL |-> output_df[i].URL,
         fields |-> output_df[i].fields]]

\* the loop is over: the output table is built and written.  A fulltext table
\* without any row has no rcept_no column and the merge raises KeyError.
MajorBuild ==
    /\ pc = "fulltext" /\ di > Len(rcept_nos)
    /\ result' = IF fulltext_rows = <<>> THEN Raised(<<"KeyError">>)
                 ELSE Workbook(format_output_df(build_output_df(piic_df, fulltext_rows)))
    /\ pc' = "done"
    /\ UNCHANGED <<pipeline, bgn_de, end_de, upstream_list, page_no, rows, list_log,
                   report_df, corp_codes, ci, chunks, aux_chunks, detail_log,
                   piic_df, rcept_nos, di, fulltext_rows, doc_log, nrm_vars, fin_vars, ext_vars>>

(***************************************************************************)
(* run_rights_issue_report_bytes: the loop over corp_codes                 *)
(***************************************************************************)
Months6 == 6

\* bgn_de minus relativedelta(months=6)
RiBgnForApi(bgn) == bgn - Months6

B(c, r, pymd) == [corp_code |-> c, corp_name |-> <<"name", c>>, rcept_no |-> r, pymd |-> pymd]

B0 == B("c1", Rcpt(6, 7), 15)
B1 == B("c1", Rcpt(10, 1), 20)
B3 == B("c1", Rcpt(11, 3), 21)
B2 == B("c2", Rcpt(11, 2), 22)
B6 == B("c3", Rcpt(11, 6), 20)

\* a row of the base group that has no payment date
NoPymd == 0
B2n == B("c2", Rcpt(11, 2), NoPymd)
B6n == B("c3", Rcpt(11, 6), NoPymd)

\* a row of one of the four other groups
A(c, v) == [corp_code |-> c, corp_name |-> <<"name", c>>, val |-> v]

\* the rows of the group titled 일반사항 that estkRs may answer for a company
BaseLists(c) ==
    IF c = "c1" THEN {<<B1>>, <<B0, B1>>, <<B1, B3>>}
    ELSE IF c = "c2" THEN {<<B2>>, <<B2, B2>>, <<B2n>>}
    ELSE {<<B6>>, <<B6n>>}

\* the group titled 증권의종류: absent, or one row for each filing of the base group
KindLists(base) ==
    {<<>>, [i \in 1..Len(base) |-> [rcept_no |-> base[i].rcept_no, stksen |-> <<"common">>]]}

\* the groups titled 자금의사용목적, 매출인에관한사항, 일반청약자환매청구권 and
\* 인수인정보: all absent, or some of them with rows
AuxGroups(c) ==
    {[df_2 |-> <<>>, df_3 |-> <<>>, df_4 |-> <<>>, df_5 |-> <<>>],
     [df_2 |-> <<A(c, "use1"), A(c, "use2")>>, df_3 |-> <<>>,
      df_4 |-> <<A(c, "right")>>, df_5 |-> <<A(c, "uw"), A(c, "uw")>>]}

NoGroups == [df_2 |-> <<>>, df_3 |-> <<>>, df_4 |-> <<>>, df_5 |-> <<>>]

EstkResponses(c) ==
    {[http |-> "fail", status |-> "", list |-> <<>>, kind |-> <<>>, aux |-> NoGroups],
     [http |-> "ok", status |-> "013", list |-> <<>>, kind |-> <<>>, aux |-> NoGroups],
     [http |-> "ok", status |-> "000", list |-> <<>>, kind |-> <<>>, aux |-> NoGroups]}
    \cup UNION {{[http |-> "ok", status |-> "000", list |-> l, kind |-> k, aux |-> a] :
                    k \in KindLists(l), a \in AuxGroups(c)} : l \in BaseLists(c)}

\* the answers of get_company_overview_df: a row, or an exception
OverviewOutcomes == {"ok", "fail"}

\* what one pass of the loop does with the answer of estkRs: raise_for_status
\* is not guarded, a non-success status and an empty base group continue
RiDetailStep(resp) ==
    IF resp.http = "fail" THEN "raise"
    ELSE IF resp.status # "000" THEN "skip"
    ELSE IF resp.list = <<>> THEN "skip"
    ELSE "overview"

BaseRow(b, stksen) ==
    [corp_code |-> b.corp_code, corp_name |-> b.corp_name, rcept_no |-> b.rcept_no,
     pymd |-> b.pymd, stksen |-> stksen, ceo_nm |-> <<"ceo", b.corp_code>>,
     URL |-> Url(b.rcept_no)]

\* pd.merge(df_base, df_kind) when the kind group has rows, then the merge
\* with the overview and the URL column
RECURSIVE MergeKind(_, _)
MergeKind(base, kind) ==
    IF base = <<>> THEN <<>>
    ELSE LET b == Head(base)
             Match(k) == k.rcept_no = b.rcept_no
             ks == SelectSeq(kind, Match)
             joined == IF kind = <<>> THEN <<BaseRow(b, Null)>>
                       ELSE [i \in 1..Len(ks) |-> BaseRow(b, ks[i].stksen)]
         IN  joined \o MergeKind(Tail(base), kind)

\* lines 519 to 523: the frames of the company go to the five lists
AppendAux(lists, aux) ==
    [df2_list |-> Append(lists.df2_list, aux.df_2),
     df3_list |-> Append(lists.df3_list, aux.df_3),
     df4_list |-> Append(lists.df4_list, aux.df_4),
     df5_list |-> Append(lists.df5_list, aux.df_5)]

RiDetail ==
    /\ pc = "detail" /\ pipeline = "ri" /\ ci <= Len(corp_codes)
    /\ \E resp \in EstkResponses(corp_codes[ci]), ov \in OverviewOutcomes :
          LET step == RiDetailStep(resp)
              asked == IF step = "overview" THEN ov ELSE "none"
          IN  /\ (step # "overview" => ov = "ok")
              /\ detail_log' = Append(detail_log,
                     DetailLog(corp_codes[ci], RiBgnForApi(bgn_de), end_de, resp, asked))
              /\ IF step = "raise"
                 THEN /\ result' = Raised(<<"HTTPError">>)
                      /\ pc' = "done"
                      /\ UNCHANGED <<chunks, aux_chunks, ci>>
                 ELSE /\ chunks' = IF step = "overview" /\ ov = "ok"
                                   THEN Append(chunks, MergeKind(resp.list, resp.kind))
                                   ELSE chunks
                      /\ aux_chunks' = IF step = "overview" /\ ov = "ok"
                                       THEN AppendAux(aux_chunks, resp.aux)
                                       ELSE aux_chunks
                      /\ ci' = ci + 1
                      /\ UNCHANGED <<result, pc>>
    /\ UNCHANGED <<pipeline, bgn_de, end_de, upstream_list, page_no, rows, list_log,
                   report_df, corp_codes,
                   piic_df, rcept_nos, di, fulltext_rows, doc_log, nrm_vars, fin_vars, ext_vars>>

(***************************************************************************)
(* _build_check_list: of the filings whose title carries the correction    *)
(* marker or the finalized-condition marker, one entry per company name    *)
(***************************************************************************)
MaxCheckRows == 4

\* the markers [CORR] (correction) and [FINAL] (issue conditions finalized)
CorrMarker == <<"[", "CORR", "]">>
FinalMarker == <<"[", "FINAL", "]">>

\* report_nm.str.contains of either marker
IsFlagged(r) == Contains(r.report_nm, CorrMarker) \/ Contains(r.report_nm, FinalMarker)

\* the has_final mask of pick_latest
IsFinal(r) == Contains(r.report_nm, FinalMarker)

\* the place of a company name in string order: the name of c2 sorts first,
\* then the name of c1, then the name of c3
NameKey(name) ==
    IF name = <<"name", "c2">> THEN 1
    ELSE IF name = <<"name", "c1">> THEN 2
    ELSE 3

\* string order of two receipt numbers
RcptLess(a, b) == a.ymd < b.ymd \/ (a.ymd = b.ymd /\ a.seq < b.seq)

\* a sorts strictly before b: name ascending, receipt date descending,
\* receipt number descending
CheckBefore(a, b) ==
    \/ NameKey(a.corp_name) < NameKey(b.corp_name)
    \/ /\ NameKey(a.corp_name) = NameKey(b.corp_name)
       /\ \/ a.rcept_dt > b.rcept_dt
          \/ (a.rcept_dt = b.rcept_dt /\ RcptLess(b.rcept_no, a.rcept_no))

\* sort_values(kind="mergesort"): stable, rows of equal keys keep their order
RECURSIVE SortCheckList(_)
SortCheckList(q) ==
    IF q = <<>> THEN <<>>
    ELSE LET srt == SortCheckList(SubSeq(q, 1, Len(q) - 1))
             x == q[Len(q)]
             pos == Cardinality({i \in 1..Len(srt) : ~CheckBefore(x, srt[i])})
         IN  SubSeq(srt, 1, pos) \o <<x>> \o SubSeq(srt, pos + 1, Len(srt))

\* the mutant of pick_latest: the first row of the group, finalized or not
pick_first(group) == <<group[1]>>

\* the first finalized-condition row of the group if it has one, else its
\* first row
pick_latest(group) ==
    LET finals == SelectSeq(group, IsFinal)
    IN  IF finals # <<>> THEN <<finals[1]>> ELSE <<group[1]>>

\* the columns left after rcept_dt and the receipt number are dropped
CheckEntry(r) == [corp_name |-> r.corp_name, report_nm |-> r.report_nm, URL |-> r.URL]

build_check_list(rdf) ==
    IF rdf = <<>> THEN <<>>
    ELSE LET check_list == SortCheckList(SelectSeq(rdf, IsFlagged))
             names == Unique(Col(check_list, "corp_name"))
             Group(n) == LET Keep(r) == r.corp_name = n IN SelectSeq(check_list, Keep)
             picked == Concat([i \in 1..Len(names) |-> pick_latest(Group(names[i]))])
         IN  [i \in 1..Len(picked) |-> CheckEntry(picked[i])]

(***************************************************************************)
(* run_rights_issue_report_bytes: the primary table and the workbook       *)
(***************************************************************************)
\* pd.concat(frames, ignore_index=True).drop_duplicates()
safe_concat(frames) == IF frames = <<>> THEN <<>> ELSE Unique(Concat(frames))

\* df_base.loc[:, sort_cols]: the receipt number and the company code go
SortCols(r) ==
    [corp_name |-> r.corp_name, stksen |-> r.stksen, pymd |-> r.pymd,
     ceo_nm |-> r.ceo_nm, URL |-> r.URL]

\* sort_values(by=납입기일, ascending=False, kind=mergesort): stable
RECURSIVE SortByPymdDesc(_)
SortByPymdDesc(df) ==
    IF df = <<>> THEN <<>>
    ELSE LET sorted == SortByPymdDesc(SubSeq(df, 1, Len(df) - 1))
             x == df[Len(df)]
             k == Cardinality({i \in 1..Len(sorted) : sorted[i].pymd >= x.pymd})
         IN  SubSeq(sorted, 1, k) \o <<x>> \o SubSeq(sorted, k + 1, Len(sorted))

\* sort_values(by=회사명, ascending=True, kind=mergesort): stable
RECURSIVE SortByNameAsc(_)
SortByNameAsc(df) ==
    IF df = <<>> THEN <<>>
    ELSE LET sorted == SortByNameAsc(SubSeq(df, 1, Len(df) - 1))
             x == df[Len(df)]
             k == Cardinality({i \in 1..Len(sorted) :
                                   NameKey(sorted[i].corp_name) <= NameKey(x.corp_name)})
         IN  SubSeq(sorted, 1, k) \o <<x>> \o SubSeq(sorted, k + 1, Len(sorted))

\* the payment date column is there when some frame of the base group had it
HasPymdColumn(df) == \E i \in 1..Len(df) : df[i].pymd # NoPymd

\* lines 572 to 575: by payment date descending, rows without one last, or
\* by company name when there is no such column
SortPrimary(df) ==
    IF df = <<>> THEN df
    ELSE IF HasPymdColumn(df) THEN SortByPymdDesc(df)
    ELSE SortByNameAsc(df)

\* df_base[회사명].dropna().drop_duplicates().tolist()
CompanyOrder(df_base) == Unique(Col(df_base, "corp_name"))

\* the code of a company name as a category: its place in company_order, and
\* a place after all of them when it is not a category
OrderKey(name, company_order) ==
    IF \E k \in 1..Len(company_order) : company_order[k] = name
    THEN CHOOSE k \in 1..Len(company_order) : company_order[k] = name
    ELSE Len(company_order) + 1

RECURSIVE SortByOrderKey(_, _)
SortByOrderKey(df, company_order) ==
    IF df = <<>> THEN <<>>
    ELSE LET sorted == SortByOrderKey(SubSeq(df, 1, Len(df) - 1), company_order)
             x == df[Len(df)]
             k == Cardinality({i \in 1..Len(sorted) :
                                   OrderKey(sorted[i].corp_name, company_order)
                                       <= OrderKey(x.corp_name, company_order)})
         IN  SubSeq(sorted, 1, k) \o <<x>> \o SubSeq(sorted, k + 1, Len(sorted))

\* the mutant of sort_by_company_order: the table stays as it was
keep_arrival_order(df, company_order) == df

\* _sort_by_company_order: stable, by the place of the company in company_order
sort_by_company_order(df, company_order) ==
    IF df = <<>> \/ company_order = <<>> THEN df
    ELSE SortByOrderKey(df, company_order)

\* _drop_cols: the company code goes from the four other tables
DropCols(df) == [i \in 1..Len(df) |-> [corp_name |-> df[i].corp_name, val |-> df[i].val]]

\* the loop is over: the tables are concatenated, projected, sorted and
\* written; the workbook is returned whatever the tables hold.  check_list is
\* what line 456 built from report_df, which the loop does not change.
RiCompose ==
    /\ pc = "detail" /\ pipeline = "ri" /\ ci > Len(corp_codes)
    /\ LET base == safe_concat(chunks)
           df_base == SortPrimary([i \in 1..Len(base) |-> SortCols(base[i])])
           company_order == CompanyOrder(df_base)
           check_list == build_check_list(report_df)
           Other(frames) == sort_by_company_order(DropCols(safe_concat(frames)), company_order)
       IN  result' = RiWorkbook(df_base,
                        [check_list |-> sort_by_company_order(check_list, company_order),
                         df_2 |-> Other(aux_chunks.df2_list),
                         df_3 |-> Other(aux_chunks.df3_list),
                         df_4 |-> Other(aux_chunks.df4_list),
                         df_5 |-> Other(aux_chunks.df5_list)])
    /\ pc' = "done"
    /\ UNCHANGED <<pipeline, bgn_de, end_de, upstream_list, page_no, rows, list_log,
                   report_df, corp_codes, ci, chunks, aux_chunks, detail_log,
                   piic_df, rcept_nos, di, fulltext_rows, doc_log, nrm_vars, fin_vars, ext_vars>>

RunInit ==
    /\ NormIdle
    /\ FinIdle
    /\ ExtIdle
    /\ pipeline \in {"major", "ri"}
    /\ \E w \in Windows : bgn_de = w.bgn_de /\ end_de = w.end_de
    /\ upstream_list \in ListWorlds(pipeline)
    /\ pc = "list" /\ result = Pending
    /\ page_no = 1 /\ rows = <<>> /\ list_log = <<>>
    /\ report_df = <<>> /\ corp_codes = <<>> /\ ci = 0 /\ chunks = <<>> /\ aux_chunks = NoAux
    /\ detail_log = <<>>
    /\ piic_df = <<>> /\ rcept_nos = <<>> /\ di = 0 /\ fulltext_rows = <<>>
    /\ doc_log = <<>>

Next ==
    \/ ListTransportError
    \/ ListPage
    \/ MajorFilter
    \/ MajorDetail
    \/ MajorEnrich
    \/ FulltextBegin
    \/ MajorFulltext
    \/ MajorBuild
    \/ RiFilter
    \/ RiDetail
    \/ RiCompose

Spec == RunInit /\ [][Next]_vars

(***************************************************************************)
(* Properties of iter_list                                                 *)
(***************************************************************************)
RECURSIVE PagesUpTo(_, _)
PagesUpTo(world, n) ==
    IF n = 0 THEN <<>> ELSE PagesUpTo(world, n - 1) \o PageOf(world, n)

Max(a, b) == IF a >= b THEN a ELSE b

AllPagesOk == \A i \in 1..Len(list_log) : list_log[i].http = "ok" /\ list_log[i].status = "000"

\* every answer received so far that carries a total_page declares T
DeclaresFixed(T) ==
    \A i \in 1..Len(list_log) :
        (list_log[i].http = "ok" /\ list_log[i].status = "000")
            => TotalPageInt(list_log[i].total_page) = T

\* C1: when every page answers with status 000, iter_list yields the records
\* of page 1, then of page 2, and so on up to the last declared page, each
\* once and in the order of its page.
C1_PageOrder ==
    AllPagesOk =>
        /\ \A i \in 1..Len(list_log) : list_log[i].page_no = i
        /\ rows = PagesUpTo(upstream_list, Len(list_log))
        /\ \A T \in 0..MaxPages :
              (DeclaresFixed(T) /\ pc # "list") => Len(list_log) = Max(1, T)

\* two pages of two records each were yielded as four records in page order
C1_Witness ==
    /\ AllPagesOk /\ pc # "list" /\ Len(list_log) = 2
    /\ Len(upstream_list) = 2 /\ Len(upstream_list[1]) = 2 /\ Len(upstream_list[2]) = 2
    /\ rows = upstream_list[1] \o upstream_list[2]
    /\ Len(rows) = 4

\* C2: with a fixed declared total T, iter_list requests pages 1, 2, ... once
\* each and in increasing order, never a page beyond max(1, T), and stops at
\* the first successful answer with T = 0 or page_no >= T, so that it has
\* requested exactly the pages 1..max(1, T) when it ends without an error.
C2_Pagination ==
    \A T \in 0..MaxPages :
        DeclaresFixed(T) =>
            /\ \A i \in 1..Len(list_log) : list_log[i].page_no = i
            /\ Len(list_log) <= Max(1, T)
            /\ pc = "list" => (page_no = Len(list_log) + 1 /\ page_no <= Max(1, T))
            /\ \A i \in 1..Len(list_log) :
                  (list_log[i].http = "ok" /\ list_log[i].status = "000")
                      => ((T = 0 \/ i >= T) <=> (i = Len(list_log) /\ pc # "list"))
            /\ (pc # "list" /\ result.kind # "raised") => Len(list_log) = Max(1, T)

\* two pages were declared by both answers and both were requested, no more
C2_Witness ==
    /\ DeclaresFixed(2) /\ AllPagesOk /\ pc = "filter"
    /\ Len(list_log) = 2 /\ list_log[2].page_no = 2

\* C3: a list page answered with a status other than 000 makes iter_list
\* raise at that page; no further page, no detail and no document request
\* follows and the run ends with that error instead of a workbook.
C3_ListErrorAborts ==
    \A i \in 1..Len(list_log) :
        (list_log[i].http = "ok" /\ list_log[i].status # "000") =>
            /\ i = Len(list_log)
            /\ pc = "done"
            /\ result.kind = "raised"
            /\ result.error = ListError(pipeline, list_log[i].status)
            /\ result.sheet = <<>>
            /\ detail_log = <<>>
            /\ doc_log = <<>>

\* the second page failed after the first had yielded its records
C3_Witness ==
    /\ Len(list_log) = 2
    /\ list_log[1].status = "000" /\ list_log[2].status = "013"
    /\ rows # <<>>
    /\ result.kind = "raised"

(***************************************************************************)
(* Properties of the loops over the companies                              *)
(***************************************************************************)
Skipped(e) == e.http = "ok" /\ (e.status # "000" \/ e.list = <<>>)

Answered(e) ==
    /\ e.http = "ok" /\ e.status = "000" /\ e.list # <<>>
    /\ (pipeline = "ri" => e.overview = "ok")

NoOutrightFailure == \A i \in 1..Len(detail_log) : detail_log[i].http = "ok"

\* the workbook holds a row of the filing: in the rights-issue sheet the URL
\* names it; the sheet of the other pipeline holds the rows of piic_df in
\* their order (its URL is empty for a filing the list did not hold)
InSheet(rcept_no) ==
    IF pipeline = "ri"
    THEN \E k \in 1..Len(result.sheet) : result.sheet[k].URL = Url(rcept_no)
    ELSE /\ Len(result.sheet) = Len(piic_df)
         /\ \E k \in 1..Len(piic_df) :
                /\ piic_df[k].rcept_no = rcept_no
                /\ result.sheet[k].URL = piic_df[k].URL
                /\ result.sheet[k].nstk_ps = piic_df[k].nstk_ps

\* C4: a company whose detail answer has a non-success status or no rows is
\* skipped without an error and the loop goes on: the next company, if there
\* is one, is requested before the loop is left.  When the run ends, every
\* company has been requested and the rows of the companies that answered
\* (inside the window, in the pipeline that applies one) are in the workbook;
\* for the rights-issue run this last part covers the runs in which no detail
\* request fails outright.
C4_SkipKeepsOthers ==
    /\ \A i \in 1..Len(detail_log) :
          Skipped(detail_log[i]) =>
              /\ detail_log[i].corp_code = corp_codes[i]
              /\ i = Len(detail_log) => (result.kind # "raised" /\ ci = i + 1)
              /\ (i < Len(corp_codes) /\ pc # "detail") => Len(detail_log) > i
    /\ (pc = "done" /\ detail_log # <<>> /\ (pipeline = "ri" => NoOutrightFailure)) =>
           /\ result.kind # "raised"
           /\ Col(detail_log, "corp_code") = corp_codes
           /\ \A i \in 1..Len(detail_log) :
                 Answered(detail_log[i]) =>
                     \A j \in 1..Len(detail_log[i].list) :
                         LET r == detail_log[i].list[j].rcept_no
                         IN  (pipeline = "major" => (bgn_de <= r.ymd /\ r.ymd <= end_de))
                                 => (result.kind = "workbook" /\ InSheet(r))

\* the second of three companies answered 013; the rows of the first and of
\* the third are in the workbook of the run
C4_Witness ==
    /\ pc = "done" /\ pipeline = "ri" /\ Len(detail_log) = 3
    /\ Answered(detail_log[1])
    /\ detail_log[2].status = "013"
    /\ Answered(detail_log[3])
    /\ result.kind = "workbook"
    /\ InSheet(detail_log[1].list[1].rcept_no)
    /\ InSheet(detail_log[3].list[1].rcept_no)

\* C5: a detail request that fails outright is absorbed for that company:
\* the run does not end with an error and the other companies are requested.
C5_FailureAbsorbed ==
    \A i \in 1..Len(detail_log) :
        detail_log[i].http = "fail" =>
            /\ result.kind # "raised"
            /\ pc = "done" => Col(detail_log, "corp_code") = corp_codes

(***************************************************************************)
(* Properties of the table fetch_paid_increase_decision_df returns         *)
(***************************************************************************)
Enriched ==
    pipeline = "major" /\ (pc \in {"fetch", "fulltext"} \/ (pc = "done" /\ ci > Len(corp_codes)))

\* C6: no two rows returned by fetch_paid_increase_decision_df share the
\* pair (corp_code, rcept_no).
C6_DedupKeys ==
    Enriched =>
        \A i, j \in 1..Len(piic_df) :
            (piic_df[i].corp_code = piic_df[j].corp_code
                /\ piic_df[i].rcept_no = piic_df[j].rcept_no) => i = j

\* a company answered the same filing twice and the table holds it once
C6_Witness ==
    /\ Enriched /\ piic_df # <<>>
    /\ \E i \in 1..Len(chunks) : \E j, k \in 1..Len(chunks[i]) :
          j # k /\ chunks[i][j].rcept_no = chunks[i][k].rcept_no
    /\ \E c \in 1..Len(chunks) : Len(chunks[c]) = 2 /\ chunks[c][1] # chunks[c][2]

\* C7: every row returned by fetch_paid_increase_decision_df has a receipt
\* date within [bgn_de, end_de]; the rows the detail answers dated on bgn_de,
\* on end_de or between them are kept, the others are discarded.
C7_ExactWindow ==
    Enriched =>
        /\ \A i \in 1..Len(piic_df) :
              bgn_de <= piic_df[i].rcept_no.ymd /\ piic_df[i].rcept_no.ymd <= end_de
        /\ \A c \in 1..Len(chunks) : \A j \in 1..Len(chunks[c]) :
              LET r == chunks[c][j]
              IN  (bgn_de <= r.rcept_no.ymd /\ r.rcept_no.ymd <= end_de)
                      => \E i \in 1..Len(piic_df) :
                             piic_df[i].corp_code = r.corp_code
                             /\ piic_df[i].rcept_no = r.rcept_no

\* the answers held rows before, on and after the window's two ends; the rows
\* on the ends stayed
C7_Witness ==
    /\ Enriched
    /\ \E c \in 1..Len(chunks) :
          /\ \E j \in 1..Len(chunks[c]) : chunks[c][j].rcept_no.ymd < bgn_de
          /\ \E j \in 1..Len(chunks[c]) : chunks[c][j].rcept_no.ymd > end_de
    /\ \E i \in 1..Len(piic_df) : piic_df[i].rcept_no.ymd = bgn_de
    /\ \E i \in 1..Len(piic_df) : piic_df[i].rcept_no.ymd = end_de

\* C8: every row of the primary sheet of the rights-issue workbook belongs to
\* a filing whose receipt date lies within [bgn_de, end_de].
C8_RiExactWindow ==
    (pipeline = "ri" /\ result.kind = "workbook") =>
        \A k \in 1..Len(result.sheet) :
            LET r == result.sheet[k].URL[2]
            IN  bgn_de <= r.ymd /\ r.ymd <= end_de

(***************************************************************************)
(* SpecChk: _build_check_list on a table of filings, then on the same      *)
(* filings in other orders                                                 *)
(***************************************************************************)
ChkRow(c, r, t) == WithUrl(<<Item(c, r, t)>>)[1]

K1 == ChkRow("c1", Rcpt(10, 1), <<"[", "CORR", "]", "RI">>)
K2 == ChkRow("c1", Rcpt(11, 3), <<"[", "FINAL", "]", "RI">>)
K3 == ChkRow("c1", Rcpt(11, 4), <<"[", "CORR", "]", "RI">>)
K4 == ChkRow("c1", Rcpt(10, 2), <<"[", "CORR", "]", "[", "FINAL", "]", "RI">>)
K5 == ChkRow("c2", Rcpt(11, 2), <<"[", "CORR", "]", "RI">>)
K6 == ChkRow("c2", Rcpt(10, 5), <<"RI">>)

CheckPool == {K1, K2, K3, K4, K5, K6}

Swap(q, i, j) == [q EXCEPT ![i] = q[j], ![j] = q[i]]

ChkInit ==
    /\ NormIdle
    /\ FinIdle
    /\ RunIdle
    /\ ParIdle
    /\ chk_rows \in SeqsUpTo(CheckPool, MaxCheckRows)
    /\ chk_first = None
    /\ chk_out = None
    /\ chk_pc = "start"

BuildCheckList ==
    /\ chk_pc = "start"
    /\ chk_first' = build_check_list(chk_rows)
    /\ chk_out' = chk_first'
    /\ chk_pc' = "built"
    /\ UNCHANGED <<chk_rows, nrm_vars, fin_vars, run_vars, par_vars>>

\* the same filings arrive in another order and the list is built again
RebuildPermuted ==
    /\ chk_pc \in {"built", "permuted"}
    /\ \E i, j \in 1..Len(chk_rows) :
          /\ i < j
          /\ chk_rows' = Swap(chk_rows, i, j)
    /\ chk_out' = build_check_list(chk_rows')
    /\ chk_pc' = "permuted"
    /\ UNCHANGED <<chk_first, nrm_vars, fin_vars, run_vars, par_vars>>

ChkNext == BuildCheckList \/ RebuildPermuted

SpecChk == ChkInit /\ [][ChkNext]_vars

\* the flagged rows of company name n, and among them the ones a pick
\* may fall on: the finalized-condition rows if there is one, else all
FlaggedOf(n) == {i \in 1..Len(chk_rows) : chk_rows[i].corp_name = n /\ IsFlagged(chk_rows[i])}

CandidatesOf(n) ==
    LET finals == {i \in FlaggedOf(n) : IsFinal(chk_rows[i])}
    IN  IF finals # {} THEN finals ELSE FlaggedOf(n)

MoreRecent(a, b) ==
    a.rcept_dt > b.rcept_dt \/ (a.rcept_dt = b.rcept_dt /\ RcptLess(b.rcept_no, a.rcept_no))

\* C12: every company with a flagged filing has exactly one entry, which is
\* its most recent finalized-condition filing if it has one and its most
\* recent flagged filing otherwise; a company without a flagged filing has
\* none; and the list is the same in whatever order the rows arrive.
C12_CheckListPick ==
    chk_pc \in {"built", "permuted"} =>
        /\ chk_out = chk_first
        /\ \A i \in 1..Len(chk_rows) :
              LET n == chk_rows[i].corp_name
                  entries == {k \in 1..Len(chk_out) : chk_out[k].corp_name = n}
              IN  IF FlaggedOf(n) = {}
                  THEN entries = {}
                  ELSE /\ Cardinality(entries) = 1
                       /\ \E c \in CandidatesOf(n) :
                             /\ \A d \in CandidatesOf(n) : ~MoreRecent(chk_rows[d], chk_rows[c])
                             /\ \A k \in entries : chk_out[k] = CheckEntry(chk_rows[c])

\* a company with an old correction, a finalized-condition filing and a newer
\* correction, given in an order other than the first, has the
\* finalized-condition filing as its entry, after the entry of the other company
C12_Witness ==
    /\ chk_pc = "permuted"
    /\ chk_rows = <<K3, K1, K5, K2>>
    /\ chk_out = <<CheckEntry(K5), CheckEntry(K2)>>

(***************************************************************************)
(* SpecParse: parse_contact_fields, then parse_schedule_fields, on one     *)
(* document, as build_output_df calls them                                 *)
(***************************************************************************)
MaxCells == 3
MaxGap == 13

\* what a TD cell may hold
CellPool ==
    { <<>>, <<"-">>, <<"v">>, <<" ", "TAG">>,
      <<"CEO">>, <<"ADDR", ":">>, <<"WRITER">>,
      <<"POS">>, <<"(", "POS", ")", " ", "v">>, <<"NAME", " ", "-">>, <<"TEL", "TAG", "v">> }

\* the signatory label, k other cells, then a cell with a sub-label
GapDocs ==
    { <<<<"WRITER">>>> \o [i \in 1..k |-> <<"v">>] \o <<sub>> :
          k \in 0..MaxGap, sub \in {<<"POS", "v">>, <<"TEL", " ", "v">>} }

\* what the attribute pattern and the cell pattern of a schedule field capture
AttrVals == {Null, <<" ">>, <<"-">>, <<"d">>, <<" ", "d", " ">>}
SchedCellVals == {Null, <<>>, <<"-">>, <<" ", "-", " ">>, <<"TAG", "d">>}

ParseDocs ==
    {Doc(c, Null, Null, Null, Null) : c \in SeqsUpTo(CellPool, MaxCells) \cup GapDocs}
    \cup {Doc(<<>>, pa, pcl, la, lc) :
              pa \in AttrVals, pcl \in SchedCellVals, la \in AttrVals, lc \in SchedCellVals}

ParseInit ==
    /\ NormIdle
    /\ FinIdle
    /\ RunIdle
    /\ ChkIdle
    /\ par_doc \in ParseDocs
    /\ par_contact = None
    /\ par_schedule = None
    /\ par_pc = "start"

ParseContactFields ==
    /\ par_pc = "start"
    /\ par_contact' = parse_contact_fields(par_doc)
    /\ par_pc' = "contact"
    /\ UNCHANGED <<par_doc, par_schedule, nrm_vars, fin_vars, run_vars, chk_vars>>

ParseScheduleFields ==
    /\ par_pc = "contact"
    /\ par_schedule' = parse_schedule_fields(par_doc)
    /\ par_pc' = "done"
    /\ UNCHANGED <<par_doc, par_contact, nrm_vars, fin_vars, run_vars, chk_vars>>

ParseNext == ParseContactFields \/ ParseScheduleFields

SpecParse == ParseInit /\ [][ParseNext]_vars

\* a field value that is None or a string other than the empty one and the dash
FieldOk(v) == v = Null \/ (v # <<>> /\ v # <<"-">>)

\* C14: every field the two parsers return is None or a non-empty string
\* other than the dash.
C14_FieldsNormalized ==
    /\ par_pc \in {"contact", "done"} =>
           /\ FieldOk(par_contact.ceo) /\ FieldOk(par_contact.addr)
           /\ FieldOk(par_contact.pos) /\ FieldOk(par_contact.name)
           /\ FieldOk(par_contact.tel)
    /\ par_pc = "done" =>
           FieldOk(par_schedule.pym) /\ FieldOk(par_schedule.lst)

\* the part of C14 that the code keeps: the two schedule fields
ScheduleFieldsNormalized ==
    par_pc = "done" => (FieldOk(par_schedule.pym) /\ FieldOk(par_schedule.lst))

\* no cell of the document carries the signatory label
NoWriterCell == \A i \in 1..Len(par_doc.cells) : ~HasLabel(par_doc.cells[i], "WRITER")

\* C15: for a document without a cell carrying the signatory label, the three
\* signatory fields come back None, whatever sub-label cells it holds.
C15_NoSignatorySection ==
    (par_pc \in {"contact", "done"} /\ NoWriterCell) =>
        (par_contact.pos = Null /\ par_contact.name = Null /\ par_contact.tel = Null)

\* a document of a title sub-label cell and a value cell, with no signatory
\* label, has been parsed
C15_Witness ==
    /\ par_pc = "contact"
    /\ par_doc.cells = <<<<"(", "POS", ")", " ", "v">>, <<"TEL", "TAG", "v">>>>
    /\ par_contact.pos = Null /\ par_contact.tel = Null

\* the index of the first cell carrying the signatory label
WriterIndex ==
    CHOOSE i \in 1..Len(par_doc.cells) :
        /\ HasLabel(par_doc.cells[i], "WRITER")
        /\ \A k \in 1..(i - 1) : ~HasLabel(par_doc.cells[k], "WRITER")

\* some cell among the n cells after the signatory label carries the label
InNextCells(label, n) ==
    \E j \in (WriterIndex + 1)..Min(WriterIndex + n, Len(par_doc.cells)) :
        HasLabel(par_doc.cells[j], label)

\* C19: with the signatory label at cell i, a sub-label in one of the cells
\* i+1 .. i+12 fills its field, and a sub-label that first occurs after
\* them leaves its field None.
C19_WindowOfTwelve ==
    (par_pc \in {"contact", "done"} /\ ~NoWriterCell) =>
        /\ InNextCells("POS", WriterWindow) <=> par_contact.pos # Null
        /\ InNextCells("NAME", WriterWindow) <=> par_contact.name # Null
        /\ InNextCells("TEL", WriterWindow) <=> par_contact.tel # Null

\* what the loop does read: the cells i+1 .. i+11
WindowAsScanned ==
    (par_pc \in {"contact", "done"} /\ ~NoWriterCell) =>
        /\ InNextCells("POS", WriterWindow - 1) <=> par_contact.pos # Null
        /\ InNextCells("NAME", WriterWindow - 1) <=> par_contact.name # Null
        /\ InNextCells("TEL", WriterWindow - 1) <=> par_contact.tel # Null

(***************************************************************************)
(* SpecDoc: fetch_report_fulltext_df and what follows it, on a detail      *)
(* table whose receipt numbers may repeat and may be missing               *)
(***************************************************************************)
MaxDocRows == 3

P(c, r) ==
    [corp_code |-> c, rcept_no |-> r, URL |-> Url(r), report_nm |-> <<"PIIC">>,
     fdpp_sum |-> Fin(5), nstk_sum |-> Fin(2), nstk_ps |-> 2]

DocRowPool ==
    {P("c1", Rcpt(10, 1)), P("c1", Rcpt(11, 5)), P("c2", Rcpt(11, 2)), P("c2", NoRcept)}

DocTables == SeqsUpTo(DocRowPool, MaxDocRows) \ {<<>>}

DocInit ==
    /\ NormIdle
    /\ FinIdle
    /\ ExtIdle
    /\ pipeline = "major"
    /\ bgn_de = 10 /\ end_de = 11
    /\ upstream_list = <<>>
    /\ pc = "fetch" /\ result = Pending
    /\ page_no = 1 /\ rows = <<>> /\ list_log = <<>>
    /\ report_df = <<>> /\ corp_codes = <<>> /\ ci = 0 /\ chunks = <<>> /\ aux_chunks = NoAux
    /\ detail_log = <<>>
    /\ piic_df \in DocTables
    /\ rcept_nos = <<>> /\ di = 0 /\ fulltext_rows = <<>>
    /\ doc_log = <<>>

DocNext == FulltextBegin \/ MajorFulltext \/ MajorBuild

SpecDoc == DocInit /\ [][DocNext]_vars

\* the index of the first row of the table holding receipt number r
FirstRow(r) ==
    CHOOSE i \in 1..Len(piic_df) :
        piic_df[i].rcept_no = r /\ \A k \in 1..(i - 1) : piic_df[k].rcept_no # r

\* q lists the distinct receipt numbers of the table that are not missing,
\* each once, in the order of their first rows
ListsDistinctNumbers(q) ==
    /\ \A i \in 1..Len(piic_df) :
          piic_df[i].rcept_no # NoRcept => \E k \in 1..Len(q) : q[k] = piic_df[i].rcept_no
    /\ \A k \in 1..Len(q) :
          /\ q[k] # NoRcept
          /\ \E i \in 1..Len(piic_df) : piic_df[i].rcept_no = q[k]
    /\ \A j, k \in 1..Len(q) : j < k => FirstRow(q[j]) < FirstRow(q[k])

\* C13: fetch_report_fulltext_df never aborts on a failing filing.  The
\* records it holds are those of the receipt numbers requested so far, one
\* each and in order; a failed download, a body that is no archive and an
\* archive without .xml member give a record with a null text and an error
\* description; the loop is left only after every distinct receipt number
\* that is not missing has its record, in order of first appearance.
C13_FulltextNeverAborts ==
    pc \in {"fulltext", "done"} =>
        /\ Len(fulltext_rows) = Len(doc_log)
        /\ \A k \in 1..Len(doc_log) :
              /\ doc_log[k].rcept_no = rcept_nos[k]
              /\ fulltext_rows[k].rcept_no = rcept_nos[k]
              /\ doc_log[k].outcome # "ok" =>
                     (fulltext_rows[k].fulltext_xml.isnull /\ fulltext_rows[k].error # Null)
              /\ doc_log[k].outcome = "ok" => ~fulltext_rows[k].fulltext_xml.isnull
        /\ (pc = "fulltext" => result = Pending)
        /\ (pc = "done" =>
               /\ ListsDistinctNumbers(Col(fulltext_rows, "rcept_no"))
               /\ (fulltext_rows # <<>> => result.kind = "workbook"))

\* of three rows, one without receipt number, the first download failed and
\* the body of the second was no archive; both have their record
C13_Witness ==
    /\ pc = "done"
    /\ Col(piic_df, "rcept_no") = <<Rcpt(11, 5), NoRcept, Rcpt(10, 1)>>
    /\ Len(doc_log) = 2
    /\ doc_log[1].outcome = "http"
    /\ doc_log[2].outcome = "badzip"
    /\ fulltext_rows[2].fulltext_xml.isnull
    /\ Col(fulltext_rows, "rcept_no") = <<Rcpt(11, 5), Rcpt(10, 1)>>

(***************************************************************************)
(* build_output_df in the run of run_major_paid_increase_report_bytes      *)
(***************************************************************************)
\* the record fetch_report_fulltext_df holds for receipt number r
FulltextOf(r) ==
    fulltext_rows[CHOOSE i \in 1..Len(fulltext_rows) : fulltext_rows[i].rcept_no = r]

\* the run went through build_output_df
Built == pipeline = "major" /\ pc = "done" /\ di > Len(rcept_nos) /\ rcept_nos # <<>>

\* C16: build_output_df keeps every detail row: the output has one row for
\* each row of the detail table, in the same order, whatever the documents
\* gave; a filing whose document was not fetched, was empty or held no field
\* has all seven parsed fields None, and a filing whose document holds the
\* fields has them.
C16_EveryRowKept ==
    Built =>
        /\ result.kind = "workbook"
        /\ Len(result.sheet) = Len(piic_df)
        /\ \A k \in 1..Len(piic_df) :
              LET f == FulltextOf(piic_df[k].rcept_no)
              IN  /\ result.sheet[k].URL = piic_df[k].URL
                  /\ result.sheet[k].nstk_ps = piic_df[k].nstk_ps
                  /\ result.sheet[k].fdpp_sum = piic_df[k].fdpp_sum
                  /\ (f.fulltext_xml.isnull \/ f.fulltext_xml.empty
                          \/ f.fulltext_xml.doc = DocBare)
                         => result.sheet[k].fields = NoFields
                  /\ (~f.fulltext_xml.isnull /\ f.fulltext_xml.doc = DocFull)
                         => /\ result.sheet[k].fields.ceo = <<"v">>
                            /\ result.sheet[k].fields.pos = <<"v">>
                            /\ result.sheet[k].fields.pym = <<"d">>
                            /\ result.sheet[k].fields.lst = <<"d">>

\* of two detail rows, the document of the first was fetched and the download
\* of the second failed; both rows are in the output, the second without fields
C16_Witness ==
    /\ Built
    /\ Len(piic_df) = 2
    /\ Len(result.sheet) = 2
    /\ ~FulltextOf(piic_df[1].rcept_no).fulltext_xml.isnull
    /\ FulltextOf(piic_df[2].rcept_no).error = <<"HTTPError">>
    /\ result.sheet[1].fields # NoFields
    /\ result.sheet[2].fields = NoFields

(***************************************************************************)
(* The order of the companies across the sheets of the rights-issue        *)
(* workbook                                                                *)
(***************************************************************************)
\* the six exported tables, the primary one first
ExportedTables(w) ==
    <<w.sheet, w.derived.check_list, w.derived.df_2, w.derived.df_3,
      w.derived.df_4, w.derived.df_5>>

NamesOf(t) == {t[i].corp_name : i \in 1..Len(t)}

\* every row of company a precedes every row of company b in table t
AllBefore(a, b, t) ==
    \A i, j \in 1..Len(t) : (t[i].corp_name = a /\ t[j].corp_name = b) => i < j

\* the place of the first row of company n in table t
FirstRowOf(n, t) ==
    CHOOSE i \in 1..Len(t) :
        t[i].corp_name = n /\ \A j \in 1..(i - 1) : t[j].corp_name # n

\* the primary table is in its own sort order
PrimarySorted(t) ==
    IF HasPymdColumn(t)
    THEN \A i, j \in 1..Len(t) : i < j => t[i].pymd >= t[j].pymd
    ELSE \A i, j \in 1..Len(t) :
             i < j => NameKey(t[i].corp_name) <= NameKey(t[j].corp_name)

RiWorkbookDone == pipeline = "ri" /\ pc = "done" /\ result.kind = "workbook"

\* C17 as stated: for any two distinct companies that both occur in two
\* exported tables of the rights-issue workbook (the primary table among
\* them), every row of the one precedes every row of the other in the first
\* table exactly when it does in the second.
C17_SameOrderInEveryTable ==
    RiWorkbookDone =>
        LET T == ExportedTables(result)
        IN  \A s, t \in 1..Len(T) :
                \A a, b \in NamesOf(T[s]) \cap NamesOf(T[t]) :
                    a # b => (AllBefore(a, b, T[s]) <=> AllBefore(a, b, T[t]))

\* C17 amended: the primary table is in its own sort order (payment date
\* descending, or company name ascending when no row has a payment date), and
\* in each of the five other tables, for any two distinct companies of that
\* table, every row of the one precedes every row of the other exactly when
\* its first row comes first in the primary table; a company that has no row
\* in the primary table comes after all those that have one.
C17_CompanyOrderPropagated ==
    RiWorkbookDone =>
        LET T == ExportedTables(result)
            primary == result.sheet
        IN  /\ PrimarySorted(primary)
            /\ \A t \in 2..Len(T) :
                 primary # <<>> =>
                   \A a, b \in NamesOf(T[t]) :
                     a # b =>
                       /\ (a \in NamesOf(primary) /\ b \in NamesOf(primary)) =>
                            (AllBefore(a, b, T[t])
                               <=> FirstRowOf(a, primary) < FirstRowOf(b, primary))
                       /\ (a \in NamesOf(primary) /\ b \notin NamesOf(primary)) =>
                            AllBefore(a, b, T[t])

\* a workbook whose funds-use table holds three companies in another order
\* than the one they were fetched in, whose review list was reordered too,
\* and whose primary table is sorted by payment date with a row without one
C17_Witness ==
    /\ RiWorkbookDone
    /\ Cardinality(NamesOf(result.derived.df_2)) = 3
    /\ result.derived.df_2 # DropCols(safe_concat(aux_chunks.df2_list))
    /\ Cardinality(NamesOf(result.derived.check_list) \cap NamesOf(result.sheet)) = 2
    /\ result.derived.check_list # build_check_list(report_df)
    /\ HasPymdColumn(result.sheet)

\* the primary table was sorted by company name and the other tables follow
NameOrderWorkbook ==
    /\ RiWorkbookDone
    /\ ~HasPymdColumn(result.sheet)
    /\ Cardinality(NamesOf(result.derived.df_2)) >= 2
    /\ result.derived.df_2 # DropCols(safe_concat(aux_chunks.df2_list))

\* the rows of one company are apart in the primary table, all of its
\* filings lying inside the requested window
InterleavedPrimary ==
    /\ RiWorkbookDone
    /\ \A k \in 1..Len(result.sheet) :
           LET r == result.sheet[k].URL[2]
           IN  bgn_de <= r.ymd /\ r.ymd <= end_de
    /\ \E i, j, k \in 1..Len(result.sheet) :
           /\ i < j /\ j < k
           /\ result.sheet[i].corp_name = result.sheet[k].corp_name
           /\ result.sheet[j].corp_name # result.sheet[i].corp_name

(***************************************************************************)
(* The outcome of a run that finds nothing                                 *)
(***************************************************************************)
\* the detail rows that survive enrichment
SurvivingRows == IF pipeline = "major" THEN piic_df ELSE safe_concat(chunks)

\* C18: a run that ends without raising returns a workbook exactly when at
\* least one detail row survives enrichment, and None otherwise: when no
\* filing matches the category filter and when every company was skipped or
\* filtered out.
C18_NothingFound ==
    (pc = "done" /\ result.kind \in {"none", "workbook"}) =>
        (result.kind = "workbook" <=> SurvivingRows # <<>>)

\* the same for the major-report run alone
MajorNothingFound == pipeline = "major" => C18_NothingFound

\* a rights-issue run whose companies were all skipped and that returns a
\* workbook of empty tables
EmptyRiWorkbook ==
    /\ RiWorkbookDone
    /\ report_df # <<>> /\ chunks = <<>> /\ result.sheet = <<>>

====
